---- MODULE Spec2Model ----
(***************************************************************************)
(* Model of the aws-bedrock-gateway adapter: the chat encoders and the     *)
(* dispatch of ProcessChat / ProcessChatStream, the streaming handler      *)
(* handleChatStream, and the model catalog ListBedrockModels.              *)
(*                                                                         *)
(* The repository holds two versions of the Bedrock service file, both in  *)
(* package main and both defining the same symbols: src/bedrock.go and     *)
(* src/unnamed/part_002.  A build links exactly one of them; the variable  *)
(* `build` says which.  Definitions modelled from src/bedrock.go carry the *)
(* suffix _bedrock where the name would otherwise clash.                   *)
(*                                                                         *)
(* Text is a sequence of tokens, so that Go's string concatenation is \o   *)
(* and HasPrefix / Contains are computed on the tokens.                    *)
(***************************************************************************)
EXTENDS Integers, Sequences, FiniteSets, TLC

VARIABLES
    build,      \* which service file is linked: "bedrock.go" or "part_002"
    req,        \* the ChatRequest bound from the HTTP body
    pc,         \* position of the handler: "start", "recv", "write", "done"
    payload,    \* the payload last produced by formatPayloadForModel
    calls,      \* upstream calls made so far, in order (names)
    result,     \* what the service operation returned / the handler answered
    upstream,   \* events the upstream stream has yet to deliver
    upEnd,      \* how the upstream sequence ends: "eof" or "error"
    script,     \* ghost: the full upstream event sequence chosen at Init
    held,       \* upstream events received and not yet written to the client
    out,        \* what has been written to the HTTP response body, in order
    nRead,      \* number of upstream events received from the channel
    streamOpen, \* an upstream stream was opened by ProcessChatStream
    closeCalled,\* the handler called Close on the upstream stream
    ctxCancelled,\* the request context was cancelled
    outAtCancel,\* ghost: Len(out) when the context was cancelled (-1: never)
    cfgOk,      \* config.LoadDefaultConfig succeeds
    fmResp,     \* outcome of ListFoundationModels
    profResp,   \* outcome of ListInferenceProfiles
    decoded     \* the decoder ProcessChat applied to the response ("none": not yet)

vars == <<build, req, pc, payload, calls, result, upstream, upEnd, script,
          held, out, nRead, streamOpen, closeCalled, ctxCancelled,
          outAtCancel, cfgOk, fmResp, profResp, decoded>>

chatVars == <<req, payload>>
streamVars == <<upstream, upEnd, script, held, out, nRead, streamOpen,
                closeCalled, ctxCancelled, outAtCancel>>
catalogVars == <<cfgOk, fmResp, profResp>>

----------------------------------------------------------------------------
(* Bounds of the model *)

MaxMessages == 3
MaxEvents == 3
MaxModels == 2
MaxProfiles == 2

Builds == {"bedrock.go", "part_002"}

----------------------------------------------------------------------------
(* Strings *)

\* strings.HasPrefix(s, p)
HasPrefix(s, p) ==
    /\ Len(p) <= Len(s)
    /\ SubSeq(s, 1, Len(p)) = p

\* strings.Contains(s, p)
Contains(s, p) ==
    \E i \in 0..(Len(s) - Len(p)) : SubSeq(s, i + 1, i + Len(p)) = p

RECURSIVE Concat(_)
\* the concatenation of a sequence of texts, in order
Concat(ts) ==
    IF ts = <<>> THEN <<>> ELSE Head(ts) \o Concat(Tail(ts))

----------------------------------------------------------------------------
(* Requests: ChatRequest, Message and the dynamic shapes of Content *)

\* Content is interface{}: a string, a list of blocks, or any other JSON value
StringContent(t) == [kind |-> "string", text |-> t, blocks |-> <<>>]
BlocksContent(bs) == [kind |-> "blocks", text |-> <<>>, blocks |-> bs]
OtherContent == [kind |-> "other", text |-> <<>>, blocks |-> <<>>]

\* a block of a content list: a JSON object with a "type" and maybe "text"
TextBlock(t) == [isMap |-> TRUE, type |-> "text", textIsString |-> TRUE, text |-> t]
ImageBlock == [isMap |-> TRUE, type |-> "image_url", textIsString |-> FALSE, text |-> <<>>]

Message(role, content) == [Role |-> role, Content |-> content]

ModelClaude == <<"anthropic", ".", "claude", "-3">>
ModelClaudeProfile == <<"us", ".", "anthropic", ".", "claude", "-3">>
ModelLlama == <<"meta", ".", "llama", "3">>
ModelUnknown == <<"totally-unknown-vendor", ".", "model">>

ModelIds == {ModelClaude, ModelClaudeProfile, ModelLlama, ModelUnknown}

MessageSet ==
    { Message("system", StringContent(<<>>)),
      Message("system", StringContent(<<"X">>)),
      Message("system", BlocksContent(<<TextBlock(<<"S">>), ImageBlock>>)),
      Message("user", StringContent(<<"Y">>)),
      Message("user", BlocksContent(<<TextBlock(<<"U">>), ImageBlock, TextBlock(<<"V">>)>>)),
      Message("user", OtherContent),
      Message("assistant", StringContent(<<"A">>)) }

MessageLists ==
    UNION { [1..n -> MessageSet] : n \in 0..MaxMessages }

\* temperature and top_p are kept in tenths (7 stands for 0.7)
Requests ==
    [ Model : ModelIds,
      Messages : MessageLists,
      MaxTokens : {0},
      Temperature : {0},
      TopP : {0},
      Stop : {<<>>} ]

NoPayload == [format |-> "none"]

\* what a handler answered: the HTTP status, the text or ids of a 200 and the
\* error of a 400 / 500 (code 0: nothing answered yet)
Http(code, text, err) == [code |-> code, text |-> text, err |-> err]
NoResult == Http(0, <<>>, "nil")

----------------------------------------------------------------------------
(* The chat encoder of src/unnamed/part_002 *)

DefaultMaxTokens == 2048
DefaultTemperature == 7

PatAnthropicClaude == <<"anthropic", ".", "claude">>
PatDotAnthropicDot == <<".", "anthropic", ".">>
PatMetaLlama == <<"meta", ".", "llama">>

\* the two Claude patterns of the message-oriented encoder
IsClaudeModel(model) ==
    Contains(model, PatAnthropicClaude) \/ Contains(model, PatDotAnthropicDot)

RECURSIVE BlockTexts(_)
\* the text of the "text" blocks of a content list, concatenated in order
BlockTexts(blocks) ==
    IF blocks = <<>> THEN <<>>
    ELSE LET b == Head(blocks) IN
         (IF b.isMap /\ b.type = "text" /\ b.textIsString THEN b.text ELSE <<>>)
            \o BlockTexts(Tail(blocks))

RECURSIVE SystemContentFrom(_, _)
\* the loop over req.Messages: a string system content is assigned, the text
\* blocks of a list system content are appended
SystemContentFrom(msgs, acc) ==
    IF msgs = <<>> THEN acc
    ELSE LET m == Head(msgs) IN
         SystemContentFrom(Tail(msgs),
            IF m.Role # "system" THEN acc
            ELSE IF m.Content.kind = "string" THEN m.Content.text
            ELSE IF m.Content.kind = "blocks" THEN acc \o BlockTexts(m.Content.blocks)
            ELSE acc)

SystemContent(msgs) == SystemContentFrom(msgs, <<>>)

\* NonSystemMessages keeping only the text of a content list
NonSystemMessages_flattened(msgs) ==
    LET kept == SelectSeq(msgs, LAMBDA m : m.Role # "system")
    IN  [i \in 1..Len(kept) |->
            IF kept[i].Content.kind = "blocks"
            THEN Message(kept[i].Role, StringContent(BlockTexts(kept[i].Content.blocks)))
            ELSE kept[i]]

\* formattedMessages after the first loop: the non-system messages, copied
NonSystemMessages(msgs) == SelectSeq(msgs, LAMBDA m : m.Role # "system")

SystemInstruction(systemContent) ==
    <<"Human: <system>\n">> \o systemContent \o <<"\n</system>\n\n">>

\* userContent of the second loop
UserContent(content) ==
    IF content.kind = "string" THEN content.text
    ELSE IF content.kind = "blocks" THEN BlockTexts(content.blocks)
    ELSE <<>>

\* index of the first user message, 0 when there is none
FirstUser(msgs) ==
    IF \E i \in 1..Len(msgs) : msgs[i].Role = "user"
    THEN CHOOSE i \in 1..Len(msgs) :
            /\ msgs[i].Role = "user"
            /\ \A j \in 1..(i - 1) : msgs[j].Role # "user"
    ELSE 0

\* MergeSystem putting the system instruction into a new message every time
MergeSystem_alwaysPrepend(formatted, instruction) ==
    <<Message("user", StringContent(instruction))>> \o formatted

\* the system instruction goes in front of the first user message, or into a
\* new user message at the head
MergeSystem(formatted, instruction) ==
    LET i == FirstUser(formatted) IN
    IF i # 0
    THEN [formatted EXCEPT ![i].Content =
            StringContent(instruction \o UserContent(formatted[i].Content))]
    ELSE <<Message("user", StringContent(instruction))>> \o formatted

ClaudeMessages(msgs) ==
    LET systemContent == SystemContent(msgs)
        formatted == NonSystemMessages(msgs)
    IN  IF systemContent # <<>>
        THEN MergeSystem(formatted, SystemInstruction(systemContent))
        ELSE formatted

Payload(format, messages, prompt, system, maxTokens, temperature, topP, stop) ==
    [ format |-> format, messages |-> messages, prompt |-> prompt,
      system |-> system, max_tokens |-> maxTokens,
      temperature |-> temperature, top_p |-> topP, stop |-> stop ]

NoSystem == [present |-> FALSE, text |-> <<>>]

Encoded(err, p) == [err |-> err, payload |-> p]

\* formatPayloadForModel of part_002: never fails
formatPayloadForModel(r) ==
    LET maxTokens == IF r.MaxTokens = 0 THEN DefaultMaxTokens ELSE r.MaxTokens
        temperature == IF r.Temperature = 0 THEN DefaultTemperature ELSE r.Temperature
    IN  IF IsClaudeModel(r.Model)
        THEN Encoded("nil",
                Payload("claude_messages", ClaudeMessages(r.Messages), <<>>,
                        NoSystem, maxTokens, temperature, r.TopP, <<>>))
        ELSE Encoded("nil",
                Payload("generic", r.Messages, <<>>,
                        NoSystem, maxTokens, temperature, r.TopP, <<>>))

----------------------------------------------------------------------------
(* The chat encoders of src/bedrock.go *)

\* a user content list holds a "text" block whose text is not a string: the
\* unchecked assertion partMap["text"].(string) panics
UserTextPanics(msgs) ==
    \E i \in 1..Len(msgs) :
        /\ msgs[i].Role = "user"
        /\ msgs[i].Content.kind = "blocks"
        /\ \E k \in 1..Len(msgs[i].Content.blocks) :
              LET b == msgs[i].Content.blocks[k] IN
              b.isMap /\ b.type = "text" /\ ~b.textIsString

RECURSIVE ClaudeTextParts(_)
\* what the "Handle multimodal content" loop writes for a user content list
ClaudeTextParts(blocks) ==
    IF blocks = <<>> THEN <<>>
    ELSE LET b == Head(blocks) IN
         (IF b.isMap /\ b.type = "text" THEN b.text ELSE <<>>)
            \o ClaudeTextParts(Tail(blocks))

\* the segment one message contributes to the prompt
PromptSegment(m) ==
    IF m.Role = "user"
    THEN <<"Human: ">>
            \o (IF m.Content.kind = "string" THEN m.Content.text
                ELSE IF m.Content.kind = "blocks" THEN ClaudeTextParts(m.Content.blocks)
                ELSE <<>>)
            \o <<"\n\n">>
    ELSE IF m.Role = "assistant"
    THEN <<"Assistant: ">>
            \o (IF m.Content.kind = "string" THEN m.Content.text ELSE <<>>)
            \o <<"\n\n">>
    ELSE <<>>

RECURSIVE ClaudePrompt(_)
ClaudePrompt(msgs) ==
    IF msgs = <<>> THEN <<"Assistant: ">>
    ELSE PromptSegment(Head(msgs)) \o ClaudePrompt(Tail(msgs))

\* the "system" field: the first system message whose content is a string
ClaudeSystemField(msgs) ==
    LET S == { i \in 1..Len(msgs) :
                 msgs[i].Role = "system" /\ msgs[i].Content.kind = "string" }
    IN  IF S = {} THEN NoSystem
        ELSE [present |-> TRUE,
              text |-> msgs[CHOOSE i \in S : \A j \in S : i <= j].Content.text]

formatClaudePayload(r) ==
    IF UserTextPanics(r.Messages) THEN Encoded("panic", NoPayload)
    ELSE Encoded("nil",
            Payload("claude_prompt", <<>>, ClaudePrompt(r.Messages),
                    ClaudeSystemField(r.Messages), r.MaxTokens, r.Temperature,
                    r.TopP, r.Stop))

AbsentContent == [kind |-> "absent", text |-> <<>>, blocks |-> <<>>]

\* one entry of the Llama message array
LlamaMessage(m) ==
    Message(m.Role,
        IF m.Content.kind = "string" THEN m.Content
        ELSE IF m.Content.kind = "blocks"
        THEN BlocksContent(SelectSeq(m.Content.blocks, LAMBDA b : b.isMap))
        ELSE AbsentContent)

formatLlamaPayload(r) ==
    Encoded("nil",
        Payload("llama", [i \in 1..Len(r.Messages) |-> LlamaMessage(r.Messages[i])],
                <<>>, NoSystem, r.MaxTokens, r.Temperature, r.TopP, r.Stop))

\* formatPayloadForModel of bedrock.go: dispatch on the model id prefix
formatPayloadForModel_bedrock(r) ==
    IF HasPrefix(r.Model, PatAnthropicClaude) THEN formatClaudePayload(r)
    ELSE IF HasPrefix(r.Model, PatMetaLlama) THEN formatLlamaPayload(r)
    ELSE Encoded("unsupported model", NoPayload)

\* the encoder of the linked build
Encode(b, r) ==
    IF b = "part_002" THEN formatPayloadForModel(r)
    ELSE formatPayloadForModel_bedrock(r)

\* the array behind formattedMessages: it starts as a nil slice and append
\* allocates a new array for it ("new"), it is not a reslice of req.Messages
formattedMessagesArray_shared == "req.Messages"

formattedMessagesArray == "new"

\* req.Messages as the caller reads it after formatPayloadForModel of part_002
\* ran its Claude branch: the writes to formattedMessages land in the array
\* behind it
MessagesAfter(msgs) ==
    IF formattedMessagesArray = "new" THEN msgs
    ELSE LET systemContent == SystemContent(msgs)
             formatted == NonSystemMessages(msgs)
             written == IF systemContent # <<>> /\ FirstUser(formatted) # 0
                        THEN MergeSystem(formatted, SystemInstruction(systemContent))
                        ELSE formatted
         IN  [i \in 1..Len(msgs) |->
                IF i <= Len(written) THEN written[i] ELSE msgs[i]]

\* the handler's request after the encoder of the linked build returned; the
\* encoders of bedrock.go only read req
CallerRequest(b, r) ==
    IF b = "part_002" /\ IsClaudeModel(r.Model)
    THEN [r EXCEPT !.Messages = MessagesAfter(r.Messages)]
    ELSE r

----------------------------------------------------------------------------
(* Upstream response bodies and the decoders *)

Body(raw, valid, content, completion, generation) ==
    [ raw |-> raw, valid |-> valid, content |-> content,
      completion |-> completion, generation |-> generation ]

Absent == [present |-> FALSE, text |-> <<>>]
Present(t) == [present |-> TRUE, text |-> t]

Bodies ==
    { Body("not-json", FALSE, <<>>, Absent, Absent),
      Body("{}", TRUE, <<>>, Absent, Absent),
      Body("content", TRUE, << <<"R">>, <<"R2">> >>, Absent, Absent),
      Body("completion", TRUE, <<>>, Present(<<"C">>), Absent),
      Body("generation", TRUE, <<>>, Absent, Present(<<"G">>)) }

Ok(text) == [status |-> "ok", text |-> text, err |-> "nil"]
Err(e) == [status |-> "error", text |-> <<>>, err |-> e]

\* parseResponseFromModel of part_002
parseResponseFromModel(body) ==
    IF ~body.valid THEN Err("failed to parse response")
    ELSE IF Len(body.content) > 0 THEN Ok(body.content[1])
    ELSE Err("no content in response")

parseClaudeResponse(body) ==
    IF ~body.valid THEN Err("json")
    ELSE IF body.completion.present THEN Ok(body.completion.text)
    ELSE Ok(<<body.raw>>)

parseLlamaResponse(body) ==
    IF ~body.valid THEN Err("json")
    ELSE IF body.generation.present THEN Ok(body.generation.text)
    ELSE Ok(<<body.raw>>)

\* parseResponseFromModel of bedrock.go
parseResponseFromModel_bedrock(model, body) ==
    IF HasPrefix(model, PatAnthropicClaude) THEN parseClaudeResponse(body)
    ELSE IF HasPrefix(model, PatMetaLlama) THEN parseLlamaResponse(body)
    ELSE Ok(<<body.raw>>)

\* the decoder ProcessChat's call of parseResponseFromModel ends in: part_002
\* has the one content decoder, bedrock.go dispatches on the model id prefix
DecoderFor(b, model) ==
    IF b = "part_002" THEN "parseResponseFromModel"
    ELSE IF HasPrefix(model, PatAnthropicClaude) THEN "parseClaudeResponse"
    ELSE IF HasPrefix(model, PatMetaLlama) THEN "parseLlamaResponse"
    ELSE "default"

Decode(b, model, body) ==
    IF b = "part_002" THEN parseResponseFromModel(body)
    ELSE parseResponseFromModel_bedrock(model, body)

----------------------------------------------------------------------------
(* handleChat: the chat completion endpoint, with BedrockService.ProcessChat *)

\* ProcessChat after a successful encode: the upstream call and the decode.
\* `transportOk` and `body` are the outcome of InvokeModel.
ProcessChatInvoke(b, r, transportOk, body) ==
    IF ~transportOk THEN Err("transport") ELSE Decode(b, r.Model, body)

handleChat ==
    /\ pc = "start"
    /\ \E bindOk \in BOOLEAN, transportOk \in BOOLEAN, body \in Bodies :
          LET e == Encode(build, req) IN
          IF ~bindOk
          THEN /\ result' = Http(400, <<>>, "bind")
               /\ UNCHANGED <<req, payload, calls, decoded>>
          ELSE IF e.err # "nil"
          THEN \* a panic is answered by gin's recovery with a 500 as well
               /\ result' = Http(500, <<>>, e.err)
               /\ req' = CallerRequest(build, req)
               /\ UNCHANGED <<payload, calls, decoded>>
          ELSE LET got == ProcessChatInvoke(build, req, transportOk, body) IN
               /\ payload' = e.payload
               /\ decoded' = IF transportOk THEN DecoderFor(build, req.Model)
                              ELSE "none"
               /\ req' = CallerRequest(build, req)
               /\ calls' = Append(calls, "InvokeModel")
               /\ result' = IF got.status = "ok"
                            THEN Http(200, got.text, "nil")
                            ELSE Http(500, <<>>, got.err)
    /\ pc' = "done"
    /\ UNCHANGED <<build, streamVars, catalogVars>>

----------------------------------------------------------------------------
(* handleChatStream: the streaming endpoint, with ProcessChatStream *)

EventKinds == {"text", "finish", "unknown"}

ContentLine(idx) == [kind |-> "content", srcs |-> {idx}]
DoneLine == [kind |-> "done", srcs |-> {}]

\* routes.go 67-85: bind, headers, ProcessChatStream
StreamOpen ==
    /\ pc = "start"
    /\ \E bindOk \in BOOLEAN, invokeOk \in BOOLEAN :
          LET e == Encode(build, req) IN
          IF ~bindOk
          THEN /\ result' = Http(400, <<>>, "bind")
               /\ pc' = "done"
               /\ UNCHANGED <<req, payload, calls, streamOpen>>
          ELSE IF e.err # "nil"
          THEN /\ result' = Http(500, <<>>, e.err)
               /\ pc' = "done"
               /\ req' = CallerRequest(build, req)
               /\ UNCHANGED <<payload, calls, streamOpen>>
          ELSE /\ payload' = e.payload
               /\ req' = CallerRequest(build, req)
               /\ calls' = Append(calls, "InvokeModelWithResponseStream")
               /\ IF invokeOk
                  THEN /\ streamOpen' = TRUE
                       /\ pc' = "recv"
                       /\ UNCHANGED result
                  ELSE /\ result' = Http(500, <<>>, "transport")
                       /\ pc' = "done"
                       /\ UNCHANGED streamOpen
    /\ UNCHANGED <<build, upstream, upEnd, script, held, out, nRead,
                   closeCalled, ctxCancelled, outAtCancel, catalogVars, decoded>>

\* routes.go 88: the range loop receives the next event from the channel
StreamRecv ==
    /\ pc = "recv"
    /\ upstream # <<>>
    /\ held' = Append(held, [idx |-> nRead + 1, kind |-> Head(upstream)])
    /\ nRead' = nRead + 1
    /\ upstream' = Tail(upstream)
    /\ pc' = "write"
    /\ UNCHANGED <<build, req, payload, calls, result, upEnd, script, out,
                   streamOpen, closeCalled, ctxCancelled, outAtCancel,
                   catalogVars, decoded>>

\* StreamWrite with the line put in front of what was written before
StreamWrite_reordered ==
    /\ pc = "write"
    /\ out' = <<ContentLine(Head(held).idx)>> \o out
    /\ held' = Tail(held)
    /\ pc' = "recv"
    /\ UNCHANGED <<build, req, payload, calls, result, upstream, upEnd, script,
                   nRead, streamOpen, closeCalled, ctxCancelled, outAtCancel,
                   catalogVars, decoded>>

\* routes.go 89-95: one placeholder line is written and flushed for the event,
\* whatever its type
StreamWrite ==
    /\ pc = "write"
    /\ out' = Append(out, ContentLine(Head(held).idx))
    /\ held' = Tail(held)
    /\ pc' = "recv"
    /\ UNCHANGED <<build, req, payload, calls, result, upstream, upEnd, script,
                   nRead, streamOpen, closeCalled, ctxCancelled, outAtCancel,
                   catalogVars, decoded>>

\* routes.go 88, 98-100: the channel is closed (end of the sequence or an
\* upstream failure, the loop cannot tell which); [DONE] is written and the
\* handler returns
StreamEnd ==
    /\ pc = "recv"
    /\ upstream = <<>>
    /\ out' = Append(out, DoneLine)
    /\ result' = Http(200, <<>>, "nil")
    /\ pc' = "done"
    /\ UNCHANGED <<build, req, payload, calls, upstream, upEnd, script, held,
                   nRead, streamOpen, closeCalled, ctxCancelled, outAtCancel,
                   catalogVars, decoded>>

\* the caller's context is cancelled while the stream is open: the upstream
\* sequence delivers some prefix of what it still had and then ends
Cancel ==
    /\ pc \in {"recv", "write"}
    /\ ~ctxCancelled
    /\ ctxCancelled' = TRUE
    /\ outAtCancel' = Len(out)
    /\ \E n \in 0..Len(upstream) :
          /\ upstream' = SubSeq(upstream, 1, n)
          /\ upEnd' = IF n < Len(upstream) THEN "error" ELSE upEnd
    /\ UNCHANGED <<build, req, pc, payload, calls, result, script, held, out,
                   nRead, streamOpen, closeCalled, catalogVars, decoded>>

----------------------------------------------------------------------------
(* Specifications of the chat and streaming endpoints *)

NoCatalog ==
    /\ cfgOk = TRUE
    /\ fmResp = [ok |-> FALSE, models |-> <<>>]
    /\ profResp = [ok |-> FALSE, profiles |-> <<>>]

HandlerStart ==
    /\ pc = "start"
    /\ payload = NoPayload
    /\ calls = <<>>
    /\ result = NoResult
    /\ held = <<>>
    /\ out = <<>>
    /\ nRead = 0
    /\ streamOpen = FALSE
    /\ closeCalled = FALSE
    /\ ctxCancelled = FALSE
    /\ outAtCancel = -1
    /\ decoded = "none"

\* every request shape, against a one-event stream
Init ==
    /\ build \in Builds
    /\ req \in Requests
    /\ script = <<"text">>
    /\ upstream = script
    /\ upEnd = "eof"
    /\ HandlerStart
    /\ NoCatalog

Next ==
    \/ handleChat
    \/ StreamOpen
    \/ StreamRecv
    \/ StreamWrite
    \/ StreamEnd
    \/ Cancel

Spec == Init /\ [][Next]_vars

Scripts == UNION { [1..n -> EventKinds] : n \in 0..MaxEvents }

StreamRequests ==
    { r \in Requests : r.Messages = <<Message("user", StringContent(<<"Y">>))>> }

\* every upstream event sequence, against one request per model id
InitStream ==
    /\ build \in Builds
    /\ req \in StreamRequests
    /\ script \in Scripts
    /\ upstream = script
    /\ upEnd \in {"eof", "error"}
    /\ HandlerStart
    /\ NoCatalog

SpecStream == InitStream /\ [][Next]_vars

----------------------------------------------------------------------------
(* Claims about the message-oriented encoder and the dispatch *)

\* the text of a message as the request states it
MessageText(content) ==
    IF content.kind = "string" THEN content.text
    ELSE IF content.kind = "blocks"
    THEN Concat([k \in 1..Len(content.blocks) |->
                    IF content.blocks[k].type = "text"
                    THEN content.blocks[k].text ELSE <<>>])
    ELSE <<>>

WrapperOpen == "Human: <system>\n"
WrapperClose == "\n</system>\n\n"

\* t is an instruction wrapper around a text containing x, followed by y
IsWrapperThen(t, x, y) ==
    /\ Len(t) >= 2 + Len(y)
    /\ t[1] = WrapperOpen
    /\ t[Len(t) - Len(y)] = WrapperClose
    /\ SubSeq(t, Len(t) - Len(y) + 1, Len(t)) = y
    /\ Contains(SubSeq(t, 2, Len(t) - Len(y) - 1), x)

\* the message-oriented encoder has produced the payload of the request
MessagesEncoded ==
    /\ build = "part_002"
    /\ payload.format = "claude_messages"

HasUser(msgs) == \E i \in 1..Len(msgs) : msgs[i].Role = "user"

SystemTexts(msgs) ==
    { MessageText(msgs[i].Content) : i \in { j \in 1..Len(msgs) : msgs[j].Role = "system" } }
        \ { <<>> }

\* C1: for every request with a system message of non-empty text X and a user
\* message, the first user entry of the emitted messages is the instruction
\* wrapper containing X followed by that message's text Y, and every other
\* entry is the request's non-system message at the same position.
C1_SystemMergedIntoFirstUser ==
    (MessagesEncoded /\ HasUser(req.Messages)) =>
        \A x \in SystemTexts(req.Messages) :
            LET in == NonSystemMessages(req.Messages)
                em == payload.messages
                u == FirstUser(in)
            IN  /\ Len(em) = Len(in)
                /\ FirstUser(em) = u
                /\ em[u].Content.kind = "string"
                /\ IsWrapperThen(em[u].Content.text, x, MessageText(in[u].Content))
                /\ \A k \in 1..Len(in) : k # u => em[k] = in[k]

\* C2: for every request with a system message of non-empty text and no user
\* message, the emitted messages hold exactly one user entry, at the head, and
\* its content is the instruction wrapper alone.
C2_SynthesizedUserAtHead ==
    (MessagesEncoded /\ ~HasUser(req.Messages) /\ SystemTexts(req.Messages) # {}) =>
        LET em == payload.messages IN
        /\ Cardinality({ k \in 1..Len(em) : em[k].Role = "user" }) = 1
        /\ em[1].Role = "user"
        /\ em[1].Content.kind = "string"
        /\ \E x \in SystemTexts(req.Messages) :
              IsWrapperThen(em[1].Content.text, x, <<>>)

\* the model id matches none of the family patterns
MatchesNoFamily(model) ==
    /\ ~Contains(model, PatAnthropicClaude)
    /\ ~Contains(model, PatDotAnthropicDot)
    /\ ~HasPrefix(model, PatMetaLlama)

\* C3: a chat request whose model id matches no family pattern is answered
\* with the unsupported-model error, and no payload is encoded and no upstream
\* call is made for it.
C3_UnknownModelRejected ==
    MatchesNoFamily(req.Model) =>
        /\ payload = NoPayload
        /\ calls = <<>>
        /\ (pc = "done" /\ result.err # "bind") => result.err = "unsupported model"

----------------------------------------------------------------------------
(* Claims about the streaming handler *)

ContentLines == SelectSeq(out, LAMBDA o : o.kind = "content")

\* the stream was opened and the handler has returned
StreamFinished == pc = "done" /\ streamOpen

\* n text events followed by one finish-reason event
TextsThenFinish(es) ==
    /\ Len(es) >= 1
    /\ es[Len(es)] = "finish"
    /\ \A i \in 1..(Len(es) - 1) : es[i] = "text"

\* C4: for an upstream sequence of n text events and one finish-reason event
\* the consumer receives exactly n content deltas, then exactly one
\* end-of-stream marker, and nothing after the marker.
C4_StreamTermination ==
    /\ \A k \in 1..(Len(out) - 1) : out[k].kind # "done"
    /\ (StreamFinished /\ ~ctxCancelled /\ upEnd = "eof" /\ TextsThenFinish(script)) =>
          /\ Len(out) = Len(script)
          /\ \A k \in 1..(Len(script) - 1) : out[k].kind = "content"
          /\ out[Len(script)].kind = "done"

\* C5: when the upstream sequence fails after k events, the consumer receives
\* the k deltas in order and then an Error event, which is the last event of
\* the stream; the failure is not reported as a normal end of stream.
C5_StreamFailureReported ==
    (StreamFinished /\ ~ctxCancelled /\ upEnd = "error") =>
        /\ Len(out) >= 1
        /\ out[Len(out)].kind = "error"
        /\ \A k \in 1..(Len(out) - 1) : out[k].kind = "content"

\* C6: once the caller's context is cancelled at most the event in hand is
\* still written, and whenever the handler returns after a stream was opened
\* the upstream stream has been closed.
C6_CancelClosesUpstream ==
    /\ ctxCancelled => Len(ContentLines) <= outAtCancel + 1
    /\ StreamFinished => closeCalled

\* C7: the content lines derive from the upstream events in upstream order,
\* each line from exactly one event that was received, and at most one
\* received event is waiting to be written.
C7_StreamOrdering ==
    /\ \A k \in 1..Len(out) :
          out[k].kind = "content" =>
              /\ Cardinality(out[k].srcs) = 1
              /\ out[k].srcs \subseteq 1..nRead
    /\ \A i, j \in 1..Len(out) :
          (i < j /\ out[i].kind = "content" /\ out[j].kind = "content") =>
              \A a \in out[i].srcs, b \in out[j].srcs : a < b
    /\ Len(held) <= 1
    /\ nRead - Len(ContentLines) = Len(held)

\* two events are written and a third is in hand
C7_Witness ==
    /\ Len(ContentLines) >= 2
    /\ Len(held) = 1

\* C8: an upstream event of unrecognized shape that is not the last event
\* produces no output line and does not end the stream.
C8_UnknownEventSkipped ==
    /\ \A k \in 1..Len(out) :
          out[k].kind = "content" =>
              \A a \in out[k].srcs : ~(script[a] = "unknown" /\ a < Len(script))
    /\ (\E k \in 1..Len(out) : out[k].kind = "done") => upstream = <<>>

----------------------------------------------------------------------------
(* The model catalog: ListBedrockModels and handleListModels *)

\* the entries of the two upstream listings.  ModelLifecycle and
\* InferenceProfileId are pointers the code tests for nil; ModelId and
\* ResponseStreamingSupported are dereferenced unchecked and are always set
\* in a listing (the listing boundary gives them as plain values).
CatalogIds == { <<"anthropic", ".", "m1">>, <<"us", ".", "p1">> }

ModelSummaries ==
    [ ModelId : CatalogIds,
      Lifecycle : {"nil", "ACTIVE", "LEGACY"},
      Streaming : BOOLEAN ]

ProfileSummaries ==
    {[hasId |-> FALSE, id |-> <<>>]} \cup [hasId : {TRUE}, id : CatalogIds]

FmResponses ==
    {[ok |-> FALSE, models |-> <<>>]}
        \cup [ok : {TRUE},
              models : UNION { [1..n -> ModelSummaries] : n \in 0..MaxModels }]

ProfResponses ==
    {[ok |-> FALSE, profiles |-> <<>>]}
        \cup [ok : {TRUE},
              profiles : UNION { [1..n -> ProfileSummaries] : n \in 0..MaxProfiles }]

RECURSIVE FoundationModelIds_noStreaming(_, _)
\* the foundation loop without the streaming test
FoundationModelIds_noStreaming(models, ids) ==
    IF models = <<>> THEN ids
    ELSE LET m == Head(models) IN
         FoundationModelIds_noStreaming(Tail(models),
            IF m.Lifecycle # "nil" /\ m.Lifecycle = "ACTIVE"
            THEN Append(ids, m.ModelId) ELSE ids)

RECURSIVE FoundationModelIds(_, _)
\* part_002 409-415: the loop over ModelSummaries, appending to modelIDs
FoundationModelIds(models, ids) ==
    IF models = <<>> THEN ids
    ELSE LET m == Head(models) IN
         FoundationModelIds(Tail(models),
            IF m.Lifecycle # "nil" /\ m.Lifecycle = "ACTIVE" /\ m.Streaming
            THEN Append(ids, m.ModelId) ELSE ids)

RECURSIVE ProfileIds(_, _)
\* part_002 427-431: the loop over InferenceProfileSummaries
ProfileIds(profiles, ids) ==
    IF profiles = <<>> THEN ids
    ELSE LET p == Head(profiles) IN
         ProfileIds(Tail(profiles), IF p.hasId THEN Append(ids, p.id) ELSE ids)

Listed(ids, err, made) == [ids |-> ids, err |-> err, calls |-> made]

\* ListBedrockModels of part_002 answering the collected ids when the profile
\* listing fails
ListBedrockModels_partial(configOk, fm, prof) ==
    IF ~configOk THEN Listed(<<>>, "unable to load SDK config", <<>>)
    ELSE IF ~fm.ok
    THEN Listed(<<>>, "unable to list foundation models", <<"ListFoundationModels">>)
    ELSE IF ~prof.ok
    THEN Listed(FoundationModelIds(fm.models, <<>>), "nil",
                <<"ListFoundationModels", "ListInferenceProfiles">>)
    ELSE Listed(ProfileIds(prof.profiles, FoundationModelIds(fm.models, <<>>)), "nil",
                <<"ListFoundationModels", "ListInferenceProfiles">>)

\* ListBedrockModels of part_002
ListBedrockModels(configOk, fm, prof) ==
    IF ~configOk THEN Listed(<<>>, "unable to load SDK config", <<>>)
    ELSE IF ~fm.ok
    THEN Listed(<<>>, "unable to list foundation models", <<"ListFoundationModels">>)
    ELSE IF ~prof.ok
    THEN Listed(<<>>, "unable to list inference profiles",
                <<"ListFoundationModels", "ListInferenceProfiles">>)
    ELSE Listed(ProfileIds(prof.profiles, FoundationModelIds(fm.models, <<>>)), "nil",
                <<"ListFoundationModels", "ListInferenceProfiles">>)

\* ListBedrockModels of bedrock.go: a fixed list, no upstream call
ListBedrockModels_bedrock ==
    Listed(<< <<"anthropic", ".", "claude", "-v2">>,
              <<"anthropic", ".", "claude", "-3-sonnet-20240229-v1:0">>,
              <<"meta", ".", "llama", "2-13b-chat-v1">> >>, "nil", <<>>)

\* strings.Split(model, ".")[0]
Owner(id) ==
    IF \E i \in 1..Len(id) : id[i] = "."
    THEN SubSeq(id, 1, (CHOOSE i \in 1..Len(id) :
                            id[i] = "." /\ \A j \in 1..(i - 1) : id[j] # ".") - 1)
    ELSE id

\* routes.go 105-126
handleListModels ==
    /\ pc = "start"
    /\ LET got == IF build = "part_002"
                  THEN ListBedrockModels(cfgOk, fmResp, profResp)
                  ELSE ListBedrockModels_bedrock
       IN  /\ calls' = calls \o got.calls
           /\ result' = IF got.err # "nil"
                        THEN Http(500, <<>>, got.err)
                        ELSE Http(200,
                                  [i \in 1..Len(got.ids) |->
                                      [id |-> got.ids[i], owned_by |-> Owner(got.ids[i])]],
                                  "nil")
    /\ pc' = "done"
    /\ UNCHANGED <<build, req, payload, streamVars, catalogVars, decoded>>

InitCatalog ==
    /\ build \in Builds
    /\ req = [ Model |-> ModelClaude, Messages |-> <<>>, MaxTokens |-> 0,
               Temperature |-> 0, TopP |-> 0, Stop |-> <<>> ]
    /\ script = <<>>
    /\ upstream = <<>>
    /\ upEnd = "eof"
    /\ HandlerStart
    /\ cfgOk \in BOOLEAN
    /\ fmResp \in FmResponses
    /\ profResp \in ProfResponses

NextCatalog == handleListModels

SpecCatalog == InitCatalog /\ [][NextCatalog]_vars

----------------------------------------------------------------------------
(* Claims about the model catalog *)

AnsweredIds == [i \in 1..Len(result.text) |-> result.text[i].id]

FoundationListed == \E i \in 1..Len(calls) : calls[i] = "ListFoundationModels"
ProfilesListed == \E i \in 1..Len(calls) : calls[i] = "ListInferenceProfiles"

\* the foundation models that are ACTIVE and declare streaming support
Streamable == SelectSeq(fmResp.models, LAMBDA m : m.Lifecycle = "ACTIVE" /\ m.Streaming)

\* the inference-profile entries that carry an id
Identified == SelectSeq(profResp.profiles, LAMBDA p : p.hasId)

C10_CatalogPartialFailure ==
    /\ (FoundationListed /\ ~fmResp.ok) => ~ProfilesListed
    /\ (pc = "done" /\ ((FoundationListed /\ ~fmResp.ok) \/ (ProfilesListed /\ ~profResp.ok))) =>
          /\ result.code = 500
          /\ result.err # "nil"
          /\ result.text = <<>>

\* the profile listing fails after foundation models were collected
C10_Witness ==
    /\ pc = "done"
    /\ ProfilesListed
    /\ ~profResp.ok
    /\ Len(Streamable) >= 1

----------------------------------------------------------------------------
(* Embeddings: ProcessEmbeddings, formatCohereEmbeddingPayload and          *)
(* parseEmbeddingResponse of src/unnamed/part_000                           *)

MaxInputs == 2
MaxEmbeddings == 2

\* EmbeddingsRequest.Input is interface{}: a string, a []string, a
\* []interface{} (what a JSON array binds to) or any other value
StringInput(s) == [kind |-> "string", s |-> s, items |-> <<>>]
StringsInput(ss) ==
    [kind |-> "strings", s |-> "",
     items |-> [i \in 1..Len(ss) |-> [isString |-> TRUE, v |-> ss[i]]]]
ListInput(items) == [kind |-> "list", s |-> "", items |-> items]
OtherInput == [kind |-> "other", s |-> "", items |-> <<>>]

InputItems ==
    { [isString |-> TRUE, v |-> "a"],
      [isString |-> TRUE, v |-> "b"],
      [isString |-> FALSE, v |-> "5"] }

EmbeddingInputs ==
    { StringInput("hello"), OtherInput }
        \cup { StringsInput(ss) : ss \in UNION { [1..n -> {"a", "b"}] : n \in 0..MaxInputs } }
        \cup { ListInput(is) : is \in UNION { [1..n -> InputItems] : n \in 0..MaxInputs } }

EmbedMultilingual == <<"cohere", ".", "embed", "-multilingual-v3">>
EmbedEnglish == <<"cohere", ".", "embed", "-english-v3">>
EmbedOther == <<"cohere", ".", "embed", "-v9">>
EmbedTitan == <<"amazon", ".", "titan", "-embed">>

EmbeddingModelIds == {EmbedMultilingual, EmbedEnglish, EmbedOther, EmbedTitan}

\* SupportedEmbeddingModels: the model name of a supported id, "" otherwise
SupportedEmbeddingModels(model) ==
    IF model = EmbedMultilingual THEN "Cohere Embed Multilingual"
    ELSE IF model = EmbedEnglish THEN "Cohere Embed English"
    ELSE ""

EmbeddingsRequests ==
    [ Model : EmbeddingModelIds,
      Input : EmbeddingInputs,
      EncodingFormat : {"", "float", "base64"} ]

\* a Go []string: nil (marshalled as JSON null) or a list
NilTexts == [isNil |-> TRUE, items |-> <<>>]
Texts(items) == [isNil |-> FALSE, items |-> items]

RECURSIVE AppendStrings(_, _)
\* part_000 96-100: append the string elements to texts; texts stays nil
\* until the first append
AppendStrings(items, texts) ==
    IF items = <<>> THEN texts
    ELSE AppendStrings(Tail(items),
            IF Head(items).isString
            THEN Texts(Append(texts.items, Head(items).v))
            ELSE texts)

EmbeddingPayload(texts) ==
    [ format |-> "cohere_embed", texts |-> texts,
      input_type |-> "search_document", truncate |-> "END" ]

formatCohereEmbeddingPayload(r) ==
    IF r.Input.kind = "string"
    THEN Encoded("nil", EmbeddingPayload(Texts(<<r.Input.s>>)))
    ELSE IF r.Input.kind = "strings"
    THEN Encoded("nil",
            EmbeddingPayload(Texts([i \in 1..Len(r.Input.items) |-> r.Input.items[i].v])))
    ELSE IF r.Input.kind = "list"
    THEN Encoded("nil", EmbeddingPayload(AppendStrings(r.Input.items, NilTexts)))
    ELSE Encoded("unsupported input format for embeddings", NoPayload)

\* upstream embedding bodies: not JSON, no "embeddings" array, or an array of
\* vectors
Vectors == { <<1, 2>>, <<3>> }

EmbeddingBody(valid, has, embeddings) ==
    [valid |-> valid, hasEmbeddings |-> has, embeddings |-> embeddings]

EmbeddingBodies ==
    { EmbeddingBody(FALSE, FALSE, <<>>), EmbeddingBody(TRUE, FALSE, <<>>) }
        \cup { EmbeddingBody(TRUE, TRUE, es) :
                 es \in UNION { [1..n -> Vectors] : n \in 0..MaxEmbeddings } }

\* base64.StdEncoding.EncodeToString(json.Marshal(embed)): a string
Base64Json(embed) == [encoding |-> "base64", of |-> embed]
\* the value passed through as it was decoded
RawVector(embed) == [encoding |-> "raw", of |-> embed]

\* part_000 149 with the comparison made on something else than "base64"
FormatElement_mixed(i, embed, encodingFormat) ==
    [ Object |-> "embedding", Index |-> i - 1,
      Embedding |-> IF encodingFormat = "base64" /\ i = 1
                    THEN Base64Json(embed) ELSE RawVector(embed) ]

\* part_000 143-156: one element of Data; i is the 1-based position
FormatElement(i, embed, encodingFormat) ==
    [ Object |-> "embedding", Index |-> i - 1,
      Embedding |-> IF encodingFormat = "base64"
                    THEN Base64Json(embed) ELSE RawVector(embed) ]

EmbeddingsResponse(model, data) ==
    [ Object |-> "list", Data |-> data, Model |-> model,
      Usage |-> [PromptTokens |-> 0, TotalTokens |-> 0] ]

PatCohereEmbed == <<"cohere", ".", "embed">>

Parsed(err, response) == [err |-> err, response |-> response]

parseEmbeddingResponse(model, body, encodingFormat) ==
    IF ~body.valid THEN Parsed("json", <<>>)
    ELSE LET embeddings ==
                IF HasPrefix(model, PatCohereEmbed) /\ body.hasEmbeddings
                THEN body.embeddings ELSE <<>>
         IN  Parsed("nil",
                EmbeddingsResponse(model,
                    [i \in 1..Len(embeddings) |->
                        FormatElement(i, embeddings[i], encodingFormat)]))

\* ProcessEmbeddings with the input formatted before the model is looked up
ProcessEmbeddings_formatFirst(r, transportOk, body) ==
    LET e == formatCohereEmbeddingPayload(r) IN
    IF e.err # "nil"
    THEN [err |-> e.err, response |-> <<>>, payload |-> NoPayload, calls |-> <<>>]
    ELSE IF ~transportOk
    THEN [err |-> "transport", response |-> <<>>, payload |-> e.payload,
          calls |-> <<"InvokeModel">>]
    ELSE LET got == parseEmbeddingResponse(r.Model, body, r.EncodingFormat) IN
         [err |-> got.err, response |-> got.response, payload |-> e.payload,
          calls |-> <<"InvokeModel">>]

\* part_000 50-84; transportOk and body are the outcome of InvokeModel
ProcessEmbeddings(r, transportOk, body) ==
    LET modelName == SupportedEmbeddingModels(r.Model)
        e == formatCohereEmbeddingPayload(r)
    IN  IF modelName = ""
        THEN [err |-> "unsupported embedding model", response |-> <<>>,
              payload |-> NoPayload, calls |-> <<>>]
        ELSE IF modelName \notin {"Cohere Embed Multilingual", "Cohere Embed English"}
        THEN [err |-> "unsupported embedding model", response |-> <<>>,
              payload |-> NoPayload, calls |-> <<>>]
        ELSE IF e.err # "nil"
        THEN [err |-> e.err, response |-> <<>>, payload |-> NoPayload, calls |-> <<>>]
        ELSE IF ~transportOk
        THEN [err |-> "transport", response |-> <<>>, payload |-> e.payload,
              calls |-> <<"InvokeModel">>]
        ELSE LET got == parseEmbeddingResponse(r.Model, body, r.EncodingFormat) IN
             [err |-> got.err, response |-> got.response, payload |-> e.payload,
              calls |-> <<"InvokeModel">>]

\* routes.go 129-145
handleEmbeddings ==
    /\ pc = "start"
    /\ \E bindOk \in BOOLEAN, transportOk \in BOOLEAN, body \in EmbeddingBodies :
          IF ~bindOk
          THEN /\ result' = Http(400, <<>>, "bind")
               /\ UNCHANGED <<payload, calls, upstream>>
          ELSE LET got == ProcessEmbeddings(req, transportOk, body) IN
               /\ payload' = got.payload
               /\ calls' = calls \o got.calls
               \* the body InvokeModel delivered, when it was called and succeeded
               /\ upstream' = IF got.calls # <<>> /\ transportOk THEN <<body>> ELSE <<>>
               /\ result' = IF got.err = "nil"
                            THEN Http(200, got.response, "nil")
                            ELSE Http(500, <<>>, got.err)
    /\ pc' = "done"
    /\ UNCHANGED <<build, req, upEnd, script, held, out, nRead, streamOpen,
                   closeCalled, ctxCancelled, outAtCancel, catalogVars, decoded>>

InitEmbed ==
    /\ build \in Builds
    /\ req \in EmbeddingsRequests
    /\ script = <<>>
    /\ upstream = <<>>
    /\ upEnd = "eof"
    /\ HandlerStart
    /\ NoCatalog

NextEmbed == handleEmbeddings

SpecEmbed == InitEmbed /\ [][NextEmbed]_vars

----------------------------------------------------------------------------
(* Claims about the embeddings path *)

\* the payload of the embedding encoder has been produced
EmbeddingEncoded == payload.format = "cohere_embed"

\* the string elements of the input, in their order
StringElements(input) ==
    LET kept == SelectSeq(input.items, LAMBDA it : it.isString)
    IN  [i \in 1..Len(kept) |-> kept[i].v]

\* C11: a string input s encodes to texts = [s], a list of strings to the
\* same list, a heterogeneous list to its string elements in their order; the
\* payload always carries input_type "search_document" and truncate "END".
C11_EmbeddingInputCoercion ==
    EmbeddingEncoded =>
        /\ payload.input_type = "search_document"
        /\ payload.truncate = "END"
        /\ ~payload.texts.isNil
        /\ payload.texts.items =
              IF req.Input.kind = "string" THEN <<req.Input.s>>
              ELSE StringElements(req.Input)

SupportedEmbeddingModel(model) == model \in {EmbedMultilingual, EmbedEnglish}

\* C12: the upstream invoke is called only for a supported model with a
\* string or list input; an unsupported model and an input of another shape
\* fail with two different errors, without any upstream call.
C12_EmbeddingsRejections ==
    /\ calls # <<>> =>
          /\ SupportedEmbeddingModel(req.Model)
          /\ req.Input.kind \in {"string", "strings", "list"}
    /\ (pc = "done" /\ result.err # "bind") =>
          /\ ~SupportedEmbeddingModel(req.Model) =>
                /\ result.code = 500
                /\ result.err = "unsupported embedding model"
                /\ calls = <<>>
          /\ (SupportedEmbeddingModel(req.Model) /\ req.Input.kind = "other") =>
                /\ result.code = 500
                /\ result.err = "unsupported input format for embeddings"
                /\ calls = <<>>

\* an unsupported model was rejected although its input is well-formed
C12_Witness ==
    /\ pc = "done"
    /\ result.err = "unsupported embedding model"
    /\ req.Input.kind = "list"
    /\ Len(req.Input.items) >= 1

\* the embeddings the upstream response carried
UpstreamEmbeddings ==
    IF upstream # <<>> /\ upstream[1].hasEmbeddings THEN upstream[1].embeddings ELSE <<>>

\* C13: within one response every element of Data is a base64 string when the
\* request asks for "base64" and a raw vector otherwise, never a mix; Data has
\* one element per upstream embedding, in upstream order, Index its position.
C13_EmbeddingDecodeUniform ==
    (pc = "done" /\ result.code = 200) =>
        LET data == result.text.Data IN
        /\ Len(data) = Len(UpstreamEmbeddings)
        /\ \A i \in 1..Len(data) :
              /\ data[i].Index = i - 1
              /\ data[i].Embedding.of = UpstreamEmbeddings[i]
              /\ data[i].Embedding.encoding =
                    IF req.EncodingFormat = "base64" THEN "base64" ELSE "raw"

\* two different upstream vectors were answered as base64
C13_Witness ==
    /\ pc = "done"
    /\ result.code = 200
    /\ req.EncodingFormat = "base64"
    /\ Len(result.text.Data) = 2
    /\ UpstreamEmbeddings[1] # UpstreamEmbeddings[2]

----------------------------------------------------------------------------
(* ConvertFinishReason (the same function in bedrock.go and part_002) *)

\* A finish reason is a sequence of segments, each a lower-case word written
\* in lower case, in upper case or capitalised; strings.ToLower is computed
\* on the segments.
Seg(w, c) == [w |-> w, case |-> c]
Lower(ws) == [i \in 1..Len(ws) |-> Seg(ws[i], "lower")]

ToLower(s) == [i \in 1..Len(s) |-> Seg(s[i].w, "lower")]

FR_tool_use == Lower(<<"tool_", "use">>)
FR_finished == Lower(<<"finish", "ed">>)
FR_end_turn == Lower(<<"end_", "turn">>)
FR_max_tokens == Lower(<<"max_", "tokens">>)
FR_stop_sequence == Lower(<<"stop", "_sequence">>)
FR_complete == Lower(<<"complete">>)
FR_content_filtered == Lower(<<"content_filter", "ed">>)
FR_tool_calls == Lower(<<"tool_", "calls">>)
FR_stop == Lower(<<"stop">>)
FR_length == Lower(<<"length">>)
FR_content_filter == Lower(<<"content_filter">>)
FR_unknown_x == Lower(<<"unknown_", "x">>)

\* finishReasonMapping with one more entry, from a canonical value back to
\* a key
finishReasonMapping_reversed(key) ==
    IF key = FR_tool_use THEN [ok |-> TRUE, v |-> FR_tool_calls]
    ELSE IF key = FR_finished THEN [ok |-> TRUE, v |-> FR_stop]
    ELSE IF key = FR_end_turn THEN [ok |-> TRUE, v |-> FR_stop]
    ELSE IF key = FR_max_tokens THEN [ok |-> TRUE, v |-> FR_length]
    ELSE IF key = FR_stop_sequence THEN [ok |-> TRUE, v |-> FR_stop]
    ELSE IF key = FR_complete THEN [ok |-> TRUE, v |-> FR_stop]
    ELSE IF key = FR_content_filtered THEN [ok |-> TRUE, v |-> FR_content_filter]
    ELSE IF key = FR_stop THEN [ok |-> TRUE, v |-> FR_end_turn]
    ELSE [ok |-> FALSE, v |-> <<>>]

\* finishReasonMapping: the value of a key, or not found
finishReasonMapping(key) ==
    IF key = FR_tool_use THEN [ok |-> TRUE, v |-> FR_tool_calls]
    ELSE IF key = FR_finished THEN [ok |-> TRUE, v |-> FR_stop]
    ELSE IF key = FR_end_turn THEN [ok |-> TRUE, v |-> FR_stop]
    ELSE IF key = FR_max_tokens THEN [ok |-> TRUE, v |-> FR_length]
    ELSE IF key = FR_stop_sequence THEN [ok |-> TRUE, v |-> FR_stop]
    ELSE IF key = FR_complete THEN [ok |-> TRUE, v |-> FR_stop]
    ELSE IF key = FR_content_filtered THEN [ok |-> TRUE, v |-> FR_content_filter]
    ELSE [ok |-> FALSE, v |-> <<>>]

\* ConvertFinishReason looking the reason up as it was written
ConvertFinishReason_caseSensitive(finishReason) ==
    IF finishReason = <<>> THEN <<>>
    ELSE LET mapped == finishReasonMapping(finishReason) IN
         IF mapped.ok THEN mapped.v ELSE ToLower(finishReason)

ConvertFinishReason(finishReason) ==
    IF finishReason = <<>> THEN <<>>
    ELSE LET mapped == finishReasonMapping(ToLower(finishReason)) IN
         IF mapped.ok THEN mapped.v ELSE ToLower(finishReason)

FinishWords ==
    { FR_tool_use, FR_finished, FR_end_turn, FR_max_tokens, FR_stop_sequence,
      FR_complete, FR_content_filtered, FR_tool_calls, FR_stop, FR_length,
      FR_content_filter, FR_unknown_x, <<>> }

\* every way of writing the words in lower case, upper case or capitalised
FinishReasons ==
    UNION { { s \in [1..Len(w) -> [w : {w[i].w : i \in 1..Len(w)},
                                   case : {"lower", "upper", "title"}]] :
                \A i \in 1..Len(w) : s[i].w = w[i].w } : w \in FinishWords }

\* the function applied to the finish reason held in req
ConvertStep ==
    /\ pc = "start"
    /\ result' = ConvertFinishReason(req)
    /\ pc' = "done"
    /\ UNCHANGED <<build, req, payload, calls, streamVars, catalogVars, decoded>>

InitFinish ==
    /\ build \in Builds
    /\ req \in FinishReasons
    /\ script = <<>>
    /\ upstream = <<>>
    /\ upEnd = "eof"
    /\ HandlerStart
    /\ NoCatalog

NextFinish == ConvertStep

SpecFinish == InitFinish /\ [][NextFinish]_vars

\* C14: whatever the letter case of the input, a mapped reason yields its
\* canonical value (end_turn -> stop, max_tokens -> length, tool_use ->
\* tool_calls, ...) and an unmapped one is returned lower-cased.
C14_FinishReasonLookup ==
    pc = "done" =>
        LET low == [i \in 1..Len(req) |-> req[i].w]
            stops == { <<"finish", "ed">>, <<"end_", "turn">>,
                       <<"stop", "_sequence">>, <<"complete">> }
        IN  IF low \in stops THEN result = FR_stop
            ELSE IF low = <<"max_", "tokens">> THEN result = FR_length
            ELSE IF low = <<"tool_", "use">> THEN result = FR_tool_calls
            ELSE IF low = <<"content_filter", "ed">> THEN result = FR_content_filter
            ELSE /\ Len(result) = Len(req)
                 /\ \A i \in 1..Len(req) : result[i] = Seg(req[i].w, "lower")

\* a mapped reason written in upper case was converted
C14_Witness ==
    /\ pc = "done"
    /\ Len(req) = 2
    /\ req[1].case = "upper"
    /\ req[2].case = "title"
    /\ result = FR_length

\* the texts the response bodies carry in a family's expected field
DecodedTexts ==
    UNION { {b.content[i] : i \in 1..Len(b.content)}
            \cup (IF b.completion.present THEN {b.completion.text} ELSE {})
            \cup (IF b.generation.present THEN {b.generation.text} ELSE {}) :
            b \in Bodies }

\* C15: after a successful upstream call the chat handler answers with a
\* success only when the text comes from the family's expected field of the
\* response; a body without that field is never answered with the raw body.
C15_DecodeFailureReported ==
    (pc = "done" /\ calls = <<"InvokeModel">> /\ result.code = 200)
        => result.text \in DecodedTexts

----------------------------------------------------------------------------
(* The request parameters *)

TokenLimits == {-1, 0, 1, 4096}

\* in tenths
Temperatures == {-1, 0, 7, 10}

ParamRequests ==
    [ Model : ModelIds,
      Messages : { <<Message("user", StringContent(<<"Y">>))>>,
                   <<Message("system", StringContent(<<"X">>)),
                     Message("user", StringContent(<<"Y">>))>> },
      MaxTokens : TokenLimits,
      Temperature : Temperatures,
      TopP : {0, 9},
      Stop : {<<>>, <<"END">>} ]

\* every value of max_tokens, temperature, top_p and stop a request can bind
InitParams ==
    /\ build \in Builds
    /\ req \in ParamRequests
    /\ script = <<"text">>
    /\ upstream = script
    /\ upEnd = "eof"
    /\ HandlerStart
    /\ NoCatalog

SpecParams == InitParams /\ [][Next]_vars

\* C16: an emitted chat payload carries a token limit above zero and a
\* temperature of at least zero; 2048 and 0.7 stand in exactly for a caller
\* value of zero (or absent), and any other caller value is emitted unchanged.
C16_ParameterDefaults ==
    payload.format # "none" =>
        /\ payload.max_tokens > 0
        /\ payload.temperature >= 0
        /\ payload.max_tokens = (IF req.MaxTokens = 0 THEN 2048 ELSE req.MaxTokens)
        /\ payload.temperature = (IF req.Temperature = 0 THEN 7 ELSE req.Temperature)

----------------------------------------------------------------------------
(* Conversations with every role and content shape *)

MaxTurns == 3

TurnSet ==
    { Message("system", StringContent(<<"X">>)),
      Message("system", BlocksContent(<<TextBlock(<<"S">>), ImageBlock>>)),
      Message("user", StringContent(<<"Y">>)),
      Message("user", BlocksContent(<<TextBlock(<<"U">>), ImageBlock, TextBlock(<<"V">>)>>)),
      Message("assistant", StringContent(<<"A">>)),
      Message("assistant", BlocksContent(<<TextBlock(<<"B">>)>>)),
      Message("tool", StringContent(<<"T">>)),
      Message("critic", StringContent(<<"Z">>)) }

TurnLists == UNION { [1..n -> TurnSet] : n \in 0..MaxTurns }

EncodeRequests ==
    [ Model : ModelIds,
      Messages : TurnLists,
      MaxTokens : {0},
      Temperature : {0},
      TopP : {0},
      Stop : {<<>>} ]

InitEncode ==
    /\ build \in Builds
    /\ req \in EncodeRequests
    /\ script = <<"text">>
    /\ upstream = script
    /\ upEnd = "eof"
    /\ HandlerStart
    /\ NoCatalog

SpecEncode == InitEncode /\ [][Next]_vars

\* the segment the prompt convention gives a message
TurnSegment(m) ==
    IF m.Role = "user" THEN <<"Human: ">> \o MessageText(m.Content) \o <<"\n\n">>
    ELSE IF m.Role = "assistant"
    THEN <<"Assistant: ">> \o MessageText(m.Content) \o <<"\n\n">>
    ELSE <<>>

\* C17: the prompt of the legacy-completion encoder is the concatenation, in
\* message order, of "Human: " + text + blank line for each user message and
\* "Assistant: " + text + blank line for each assistant message, system
\* messages adding nothing; the system text is carried in the system field.
C17_LegacyPromptLinearisation ==
    payload.format = "claude_prompt" =>
        /\ payload.prompt =
              Concat([i \in 1..Len(req.Messages) |-> TurnSegment(req.Messages[i])])
        /\ \A t \in SystemTexts(req.Messages) :
              payload.system.present /\ Contains(payload.system.text, t)

\* C18: the emitted messages are the request's non-system messages in their
\* order, after at most one synthesized entry at the head; each of them has
\* the role and the content (non-text blocks included) of its input message,
\* except the first user message when it received the system wrapper.
C18_NonSystemPassThrough ==
    MessagesEncoded =>
        LET in == SelectSeq(req.Messages, LAMBDA m : m.Role # "system")
            em == payload.messages
            d == Len(em) - Len(in)
        IN  /\ d \in {0, 1}
            /\ \A i \in 1..Len(in) :
                  /\ em[i + d].Role = in[i].Role
                  /\ em[i + d].Content # in[i].Content =>
                        /\ d = 0
                        /\ in[i].Role = "user"
                        /\ \A j \in 1..(i - 1) : in[j].Role # "user"
                        /\ Len(in) < Len(req.Messages)

\* a system message was merged into the first user message, and a later
\* message with an image block was passed through
C18_Witness ==
    /\ MessagesEncoded
    /\ Len(req.Messages) = 3
    /\ req.Messages[1].Role = "system"
    /\ req.Messages[2] = Message("user", StringContent(<<"Y">>))
    /\ req.Messages[3].Content.kind = "blocks"
    /\ Len(payload.messages) = 2
    /\ payload.messages[1].Content # req.Messages[2].Content
    /\ payload.messages[2] = req.Messages[3]

KnownRoles == {"system", "user", "assistant", "tool"}

\* C20: a payload is emitted only for a request whose messages all have one
\* of the roles system, user, assistant, tool: a request with any other role
\* fails before the encoder emits anything.
C20_UnknownRoleRejected ==
    payload.format # "none" =>
        \A i \in 1..Len(req.Messages) : req.Messages[i].Role \in KnownRoles

----------------------------------------------------------------------------
(* Encoder and decoder families *)

\* the family whose wire format a payload is in
PayloadFamily(format) ==
    IF format = "claude_messages" THEN "messages"
    ELSE IF format = "claude_prompt" THEN "completion"
    ELSE IF format = "llama" THEN "generation"
    ELSE "generic"

\* the family whose response field a decoder reads: content, completion,
\* generation, or none of them
DecoderFamily(decoder) ==
    IF decoder = "parseResponseFromModel" THEN "messages"
    ELSE IF decoder = "parseClaudeResponse" THEN "completion"
    ELSE IF decoder = "parseLlamaResponse" THEN "generation"
    ELSE "raw"

\* C21: whenever ProcessChat decoded an upstream response, the decoder it
\* applied belongs to the family of the encoder that produced the request
\* payload.
C21_FamilyConsistency ==
    decoded # "none" => DecoderFamily(decoded) = PayloadFamily(payload.format)

\* C22: the emitted messages of the message-oriented encoder hold no entry
\* with role system, and there are as many of them as the request has
\* non-system messages, plus one exactly when a user message was synthesized
\* (the output starts with a user entry although the request has no user
\* message).
C22_NoSystemEntry ==
    MessagesEncoded =>
        LET em == payload.messages
            n == Cardinality({ i \in 1..Len(req.Messages) :
                                 req.Messages[i].Role # "system" })
            synthesized == /\ em # <<>>
                           /\ em[1].Role = "user"
                           /\ \A i \in 1..Len(req.Messages) :
                                 req.Messages[i].Role # "user"
        IN  /\ \A k \in 1..Len(em) : em[k].Role # "system"
            /\ Len(em) = n + (IF synthesized THEN 1 ELSE 0)

\* a request of two system messages and an assistant message: one user
\* message was synthesized in front of the assistant message
C22_Witness ==
    /\ MessagesEncoded
    /\ Len(req.Messages) = 3
    /\ req.Messages[1].Role = "system"
    /\ req.Messages[2].Role = "system"
    /\ req.Messages[3].Role = "assistant"
    /\ Len(payload.messages) = 2
    /\ payload.messages[1].Role = "user"
    /\ payload.messages[2] = req.Messages[3]

\* C23: converting a converted finish reason changes nothing:
\* ConvertFinishReason(ConvertFinishReason(r)) = ConvertFinishReason(r) for
\* every r, the empty string included, which is converted to itself.
C23_FinishReasonIdempotent ==
    pc = "done" =>
        /\ ConvertFinishReason(result) = result
        /\ req = <<>> => result = <<>>

\* a key written in capitals was converted to a canonical value, which is
\* converted to itself
C23_Witness ==
    /\ pc = "done"
    /\ req = <<Seg("stop", "title"), Seg("_sequence", "upper")>>
    /\ result = FR_stop
    /\ ConvertFinishReason(result) = FR_stop

====
